---- MODULE Spec2Model ----
(***************************************************************************)
(* Workflow dependency engine of src/execution_order.py: three append-only *)
(* tables (workflows, steps, dependencies), the validation done by the     *)
(* create_* handlers, and the execution order computed by                  *)
(* get_execution_order with networkx's topological sort.                   *)
(*                                                                         *)
(* Columns that no handler reads back in a decision (WorkflowDB.name,      *)
(* StepDB.description) are left out of the rows.  Every query on steps and *)
(* dependencies filters on workflow_id, so the two tables are kept as one  *)
(* row list per workflow_id; the id of a new row is the number of rows of  *)
(* its table plus one (integer primary key, no row is ever deleted).       *)
(***************************************************************************)
EXTENDS Integers, Sequences, FiniteSets, TLC

\* ------------------------------------------------------------------ bounds
\* at most this many rows in the steps table
MaxSteps == 3
\* at most this many rows in the dependencies table
MaxDeps == 3

\* identifiers the callers draw from; StepOrder lists the step identifiers
\* in lexicographic (string) order
WorkflowIds == {"w1", "w2"}
StepOrder == <<"A", "B", "C">>
StepIds == {StepOrder[i] : i \in DOMAIN StepOrder}
Procs == {1, 2}

VARIABLES
    workflows,     \* table workflows: row i is the workflow_str_id of id i
    steps,         \* table steps by workflow_id: the step_str_id of the rows, in row order
    dependencies,  \* table dependencies by workflow_id: the [step_str_id,
                   \* prerequisite_step_str_id] of the rows, in row order
    hashOrder,     \* order in which a set of str iterates in the running interpreter
    pc,            \* position of each request in its handler
    req,           \* the request each client sent last
    loc,           \* the handler's local variables
    ret,           \* what the handler returned or raised
    resp           \* what the client received: HTTP status and body

vars == <<workflows, steps, dependencies, hashOrder, pc, req, loc, ret, resp>>
db == <<workflows, steps, dependencies>>

\* ----------------------------------------------------------------- helpers
Range(s) == {s[i] : i \in DOMAIN s}

Min(S) == CHOOSE x \in S : \A y \in S : x <= y

IsPermutationOf(s, S) ==
    /\ Range(s) = S
    /\ Len(s) = Cardinality(S)

\* the orders in which a set of str may iterate: the string hashes are
\* seeded anew in every interpreter process
HashOrders ==
    {s \in [1..Len(StepOrder) -> StepIds] : Range(s) = StepIds}

\* position of x in the sequence s (0 when absent)
Pos(s, x) == IF \E i \in DOMAIN s : s[i] = x THEN Min({i \in DOMAIN s : s[i] = x}) ELSE 0

NoRequest == [op |-> "none"]
NoLocals == [workflow |-> 0]
Nothing == [none |-> TRUE]

\* ------------------------------------------------------- responses (FastAPI)
\* raise HTTPException(status_code, detail): FastAPI answers with that status
\* and the body {"detail": detail}
HTTPException(status_code, detail) == [status_code |-> status_code, detail |-> detail]

IsHTTPException(r) == "status_code" \in DOMAIN r

\* fields a response_model requires of the returned dict; "status" has a
\* default in every model that declares it
RequiredFields(op) ==
    CASE op = "create_workflow" -> {"internal_db_id", "workflow_str_id"}
      [] op = "create_step" -> {"internal_db_id", "step_str_id"}
      [] op = "create_dependency" -> {}
      [] op = "get_workflow_details" -> {"workflow_str_id", "steps"}
      [] op = "get_execution_order" -> {"order"}

\* what the client receives for a handler outcome r of endpoint op: an
\* HTTPException becomes its status; a returned dict is validated against the
\* endpoint's response_model, and a dict that lacks a required field is
\* answered with 500 Internal Server Error
Respond(op, r) ==
    IF IsHTTPException(r)
    THEN [status |-> r.status_code, body |-> [detail |-> r.detail]]
    ELSE IF "unhandled" \in DOMAIN r
    THEN [status |-> 500, body |-> [detail |-> "Internal Server Error"]]
    ELSE IF RequiredFields(op) \subseteq DOMAIN r
    THEN [status |-> 200, body |-> r]
    ELSE [status |-> 500, body |-> [detail |-> "Internal Server Error"]]

\* --------------------------------------------------------------- queries
\* db.query(WorkflowDB).filter(workflow_str_id == w).first(): the row id, 0 for None
QueryWorkflow(w) == Pos(workflows, w)

\* db.query(StepDB).filter(workflow_id == wid, step_str_id == s).first() is not None
QueryStep(wid, s) == s \in Range(steps[wid])

\* db.query(DependencyDB).filter(workflow_id, step_str_id, prerequisite_step_str_id).first() is not None
QueryDependency(wid, s, p) ==
    \E i \in DOMAIN dependencies[wid] :
        /\ dependencies[wid][i].step_str_id = s
        /\ dependencies[wid][i].prerequisite_step_str_id = p

\* db.query(StepDB).filter(workflow_id == wid).all(): the step_str_id of the
\* rows, in row order
StepsOf(wid) == steps[wid]

\* db.query(DependencyDB).filter(workflow_id == wid).all(), in row order
DependenciesOf(wid) == dependencies[wid]

StepIdsOf(wid) == Range(StepsOf(wid))

\* number of rows of a table kept by workflow_id
RECURSIVE RowCount(_, _)
RowCount(t, n) == IF n = 0 THEN 0 ELSE Len(t[n]) + RowCount(t, n - 1)

Rows(t) == RowCount(t, Cardinality(WorkflowIds))

\* the exceptions the handlers raise, with the detail the source formats
WorkflowNotFound(w) == HTTPException(404, "Workflow " \o w \o " not found")

StepNotFound(s) == HTTPException(404, "Step " \o s \o " not found in workflow")

WorkflowAlreadyExists == HTTPException(400, "Workflow ID already exists")

StepAlreadyExists(s) == HTTPException(400, "Step " \o s \o " already exists in workflow")

\* check_workflow_exists: the workflow row id, or the 404 it raises
check_workflow_exists(w) ==
    IF QueryWorkflow(w) = 0
    THEN WorkflowNotFound(w)
    ELSE [id |-> QueryWorkflow(w)]

\* variant: the step is looked up without the workflow_id filter
check_step_exists_any_workflow(wid, s) ==
    IF \A i \in DOMAIN steps : ~QueryStep(i, s)
    THEN StepNotFound(s)
    ELSE Nothing

\* check_step_exists: the 404 it raises, or Nothing
check_step_exists(wid, s) ==
    IF ~QueryStep(wid, s)
    THEN StepNotFound(s)
    ELSE Nothing

\* variant: no check at all
validate_no_self_dependency_off(s, p) == Nothing

DependencyAlreadyExists == HTTPException(400, "Dependency already exists")

\* validate_no_self_dependency: the 400 it raises, or Nothing
validate_no_self_dependency(s, p) ==
    IF s = p
    THEN HTTPException(400, "Self-dependency not allowed")
    ELSE Nothing

\* ----------------------------------------------------- graph (nx.DiGraph)
\* a DiGraph keeps its nodes, and each node's successors, in insertion
\* order: nodes is the node list, edges the edge list without repetition
EmptyGraph == [nodes |-> <<>>, edges |-> <<>>]

\* G.add_node(n): a node already present keeps its place
add_node(G, n) ==
    IF n \in Range(G.nodes) THEN G ELSE [G EXCEPT !.nodes = Append(@, n)]

\* G.add_edge(u, v): adds the endpoints that are missing (u first), then the
\* edge unless it is already there
add_edge(G, u, v) ==
    LET G1 == add_node(add_node(G, u), v)
    IN  IF <<u, v>> \in Range(G1.edges) THEN G1
        ELSE [G1 EXCEPT !.edges = Append(@, <<u, v>>)]

RECURSIVE add_nodes_from(_, _)
add_nodes_from(G, ns) ==
    IF ns = <<>> THEN G
    ELSE add_nodes_from(add_node(G, Head(ns)), Tail(ns))

\* variant: the edges added dependent -> prerequisite
RECURSIVE add_dependency_edges_reversed(_, _)
add_dependency_edges_reversed(G, deps) ==
    IF deps = <<>> THEN G
    ELSE add_dependency_edges_reversed(
            add_edge(G, Head(deps).step_str_id, Head(deps).prerequisite_step_str_id),
            Tail(deps))

\* for dep in dependencies: G.add_edge(dep.prerequisite_step_str_id, dep.step_str_id)
RECURSIVE add_dependency_edges(_, _)
add_dependency_edges(G, deps) ==
    IF deps = <<>> THEN G
    ELSE add_dependency_edges(
            add_edge(G, Head(deps).prerequisite_step_str_id, Head(deps).step_str_id),
            Tail(deps))

\* G.in_degree(v)
in_degree(G, v) == Cardinality({i \in DOMAIN G.edges : G.edges[i][2] = v})

\* G.neighbors(u): the successors of u in the order their edges were added
neighbors(G, u) ==
    LET Test(e) == e[1] = u
        out == SelectSeq(G.edges, Test)
    IN  [i \in DOMAIN out |-> out[i][2]]

\* ------------------------------------------ nx.topological_sort (Kahn)
\* variant: a child whose in-degree reaches zero stays in indegree_map
RECURSIVE visit_children_keep(_, _, _)
visit_children_keep(children, indegree_map, zero_indegree) ==
    IF children = <<>>
    THEN [indegree_map |-> indegree_map, zero_indegree |-> zero_indegree]
    ELSE LET child == Head(children)
             d == indegree_map[child] - 1
         IN  visit_children_keep(Tail(children),
                 [indegree_map EXCEPT ![child] = d],
                 IF d = 0 THEN Append(zero_indegree, child) ELSE zero_indegree)

\* inner loop of topological_generations over the children of one node:
\* decrement the child's in-degree, and move it to zero_indegree at zero
RECURSIVE visit_children(_, _, _)
visit_children(children, indegree_map, zero_indegree) ==
    IF children = <<>>
    THEN [indegree_map |-> indegree_map, zero_indegree |-> zero_indegree]
    ELSE LET child == Head(children)
             d == indegree_map[child] - 1
         IN  IF d = 0
             THEN visit_children(Tail(children),
                      [v \in DOMAIN indegree_map \ {child} |-> indegree_map[v]],
                      Append(zero_indegree, child))
             ELSE visit_children(Tail(children),
                      [indegree_map EXCEPT ![child] = d],
                      zero_indegree)

\* for node in this_generation: for child in G.neighbors(node): ...
RECURSIVE visit_generation(_, _, _, _)
visit_generation(G, this_generation, indegree_map, zero_indegree) ==
    IF this_generation = <<>>
    THEN [indegree_map |-> indegree_map, zero_indegree |-> zero_indegree]
    ELSE LET r == visit_children(neighbors(G, Head(this_generation)),
                                 indegree_map, zero_indegree)
         IN  visit_generation(G, Tail(this_generation),
                              r.indegree_map, r.zero_indegree)

\* variant: the nodes left with a positive in-degree are not looked at
RECURSIVE topological_generations_unchecked(_, _, _, _)
topological_generations_unchecked(G, indegree_map, zero_indegree, out) ==
    IF zero_indegree = <<>>
    THEN [order |-> out, unfeasible |-> FALSE]
    ELSE LET r == visit_generation(G, zero_indegree, indegree_map, <<>>)
         IN  topological_generations_unchecked(G, r.indegree_map, r.zero_indegree,
                                               out \o zero_indegree)

\* while zero_indegree: ...; yields the generations one after the other and
\* raises NetworkXUnfeasible when nodes with a positive in-degree are left
RECURSIVE topological_generations(_, _, _, _)
topological_generations(G, indegree_map, zero_indegree, out) ==
    IF zero_indegree = <<>>
    THEN [order |-> out, unfeasible |-> DOMAIN indegree_map # {}]
    ELSE LET r == visit_generation(G, zero_indegree, indegree_map, <<>>)
         IN  topological_generations(G, r.indegree_map, r.zero_indegree,
                                     out \o zero_indegree)

\* list(nx.topological_sort(G)): the nodes generation by generation, or
\* NetworkXUnfeasible
topological_sort(G) ==
    LET positive == {v \in Range(G.nodes) : in_degree(G, v) > 0}
        IsZero(v) == in_degree(G, v) = 0
    IN  topological_generations(G,
            [v \in positive |-> in_degree(G, v)],
            SelectSeq(G.nodes, IsZero),
            <<>>)

\* iteration of the set comprehension {step.step_str_id for step in steps}:
\* every identifier once, in the order h that the string hashes of the
\* interpreter give
SetIteration(S, h) ==
    LET Test(x) == x \in S IN SelectSeq(h, Test)

\* the graph get_execution_order builds for the workflow row wid: the step
\* ids as nodes, then one edge prerequisite -> step per dependency row
build_graph(wid, h) ==
    add_dependency_edges(
        add_nodes_from(EmptyGraph, SetIteration(StepIdsOf(wid), h)),
        DependenciesOf(wid))

\* body of get_execution_order after check_workflow_exists
execution_order(wid, h) ==
    LET r == topological_sort(build_graph(wid, h))
    IN  IF r.unfeasible
        THEN [error |-> "cycle_detected"]
        ELSE [order |-> r.order]

\* variant: the dependency rows are not filtered on workflow_id
workflow_details_all_workflows(wid) ==
    LET ss == StepsOf(wid)
        RECURSIVE AllRows(_)
        AllRows(n) == IF n = 0 THEN <<>> ELSE AllRows(n - 1) \o dependencies[n]
        Prerequisites(s) ==
            LET Test(d) == d.step_str_id = s
                ds == SelectSeq(AllRows(Cardinality(WorkflowIds)), Test)
            IN  [i \in DOMAIN ds |-> ds[i].prerequisite_step_str_id]
    IN  [workflow_str_id |-> workflows[wid],
         steps |-> [i \in DOMAIN ss |->
                      [step_str_id |-> ss[i],
                       prerequisites |-> Prerequisites(ss[i])]]]

\* body of get_workflow_details after check_workflow_exists
workflow_details(wid) ==
    LET ss == StepsOf(wid)
        Prerequisites(s) ==
            LET Test(d) == d.step_str_id = s
                ds == SelectSeq(dependencies[wid], Test)
            IN  [i \in DOMAIN ds |-> ds[i].prerequisite_step_str_id]
    IN  [workflow_str_id |-> workflows[wid],
         steps |-> [i \in DOMAIN ss |->
                      [step_str_id |-> ss[i],
                       prerequisites |-> Prerequisites(ss[i])]]]

\* ------------------------------------------------------------ handlers
\* create_workflow up to the insert: the 400 it raises, or Nothing
create_workflow_check(w) ==
    IF QueryWorkflow(w) # 0
    THEN WorkflowAlreadyExists
    ELSE Nothing

\* variant: the step is looked up in every workflow
create_step_check_any_workflow(w, s) ==
    LET workflow == check_workflow_exists(w)
    IN  IF IsHTTPException(workflow) THEN workflow
        ELSE IF \E wid \in DOMAIN steps : QueryStep(wid, s)
        THEN StepAlreadyExists(s)
        ELSE workflow

\* create_step up to the insert: the exception it raises, or the workflow row
create_step_check(w, s) ==
    LET workflow == check_workflow_exists(w)
    IN  IF IsHTTPException(workflow) THEN workflow
        ELSE IF QueryStep(workflow.id, s)
        THEN StepAlreadyExists(s)
        ELSE workflow

\* the edges prerequisite -> dependent stored for the workflow row wid
Edges(wid) ==
    {<<d.prerequisite_step_str_id, d.step_str_id>> : d \in Range(dependencies[wid])}

\* pairs <<a, b>> joined by a path of one to n + 1 edges of R
RECURSIVE Paths(_, _)
Paths(R, n) ==
    IF n = 0 THEN R
    ELSE LET P == Paths(R, n - 1)
         IN  P \cup {<<a, c>> \in StepIds \X StepIds :
                        \E b \in StepIds : <<a, b>> \in P /\ <<b, c>> \in R}

\* the edge set R has a directed cycle
Cyclic(R) == \E s \in StepIds : <<s, s>> \in Paths(R, Cardinality(StepIds))

HasCycle(wid) == Cyclic(Edges(wid))

\* variant: the duplicate pair is not looked up
create_dependency_check_no_lookup(w, s, p) ==
    LET workflow == check_workflow_exists(w)
    IN  IF IsHTTPException(workflow) THEN workflow
        ELSE IF IsHTTPException(validate_no_self_dependency(s, p))
        THEN validate_no_self_dependency(s, p)
        ELSE IF IsHTTPException(check_step_exists(workflow.id, s))
        THEN check_step_exists(workflow.id, s)
        ELSE IF IsHTTPException(check_step_exists(workflow.id, p))
        THEN check_step_exists(workflow.id, p)
        ELSE workflow

\* variant: an edge that closes a cycle is refused
create_dependency_check_acyclic(w, s, p) ==
    LET workflow == check_workflow_exists(w)
    IN  IF IsHTTPException(workflow) THEN workflow
        ELSE IF IsHTTPException(validate_no_self_dependency(s, p))
        THEN validate_no_self_dependency(s, p)
        ELSE IF IsHTTPException(check_step_exists(workflow.id, s))
        THEN check_step_exists(workflow.id, s)
        ELSE IF IsHTTPException(check_step_exists(workflow.id, p))
        THEN check_step_exists(workflow.id, p)
        ELSE IF QueryDependency(workflow.id, s, p)
        THEN DependencyAlreadyExists
        ELSE IF Cyclic(Edges(workflow.id) \cup {<<p, s>>})
        THEN HTTPException(400, "Dependency closes a cycle")
        ELSE workflow

\* variant: the self-dependency is looked at after the two steps
create_dependency_check_steps_first(w, s, p) ==
    LET workflow == check_workflow_exists(w)
    IN  IF IsHTTPException(workflow) THEN workflow
        ELSE IF IsHTTPException(check_step_exists(workflow.id, s))
        THEN check_step_exists(workflow.id, s)
        ELSE IF IsHTTPException(check_step_exists(workflow.id, p))
        THEN check_step_exists(workflow.id, p)
        ELSE IF IsHTTPException(validate_no_self_dependency(s, p))
        THEN validate_no_self_dependency(s, p)
        ELSE IF QueryDependency(workflow.id, s, p)
        THEN DependencyAlreadyExists
        ELSE workflow

\* create_dependency up to the insert: the first exception raised, in the
\* order of the statements, or the workflow row
create_dependency_check(w, s, p) ==
    LET workflow == check_workflow_exists(w)
    IN  IF IsHTTPException(workflow) THEN workflow
        ELSE IF IsHTTPException(validate_no_self_dependency(s, p))
        THEN validate_no_self_dependency(s, p)
        ELSE IF IsHTTPException(check_step_exists(workflow.id, s))
        THEN check_step_exists(workflow.id, s)
        ELSE IF IsHTTPException(check_step_exists(workflow.id, p))
        THEN check_step_exists(workflow.id, p)
        ELSE IF QueryDependency(workflow.id, s, p)
        THEN DependencyAlreadyExists
        ELSE workflow

\* variant: the row is added twice
InsertStep_twice(t, wid, s) == [t EXCEPT ![wid] = Append(Append(@, s), s)]

\* db.add(StepDB(step_str_id=s, workflow_id=wid)); db.commit()
InsertStep(t, wid, s) == [t EXCEPT ![wid] = Append(@, s)]

\* variant: a workflow keeps its two latest dependency rows only
InsertDependency_latest(t, wid, s, p) ==
    [t EXCEPT ![wid] =
        Append(IF Len(@) >= 2 THEN Tail(@) ELSE @,
               [step_str_id |-> s, prerequisite_step_str_id |-> p])]

\* variant: the row is added to every workflow
InsertDependency_everywhere(t, wid, s, p) ==
    [n \in DOMAIN t |-> Append(t[n], [step_str_id |-> s, prerequisite_step_str_id |-> p])]

\* db.add(DependencyDB(workflow_id=wid, step_str_id=s, prerequisite_step_str_id=p)); db.commit()
InsertDependency(t, wid, s, p) ==
    [t EXCEPT ![wid] = Append(@, [step_str_id |-> s, prerequisite_step_str_id |-> p])]

\* the request of client c ends with the handler outcome r
Finish(c, request, r) ==
    /\ req' = [req EXCEPT ![c] = request]
    /\ ret' = [ret EXCEPT ![c] = r]
    /\ resp' = [resp EXCEPT ![c] = Respond(request.op, r)]
    /\ pc' = [pc EXCEPT ![c] = "done"]
    /\ loc' = [loc EXCEPT ![c] = NoLocals]

\* POST /workflows, run from the first statement to the last
create_workflow(c, w) ==
    LET r == create_workflow_check(w)
    IN  /\ IF IsHTTPException(r)
           THEN /\ workflows' = workflows
                /\ Finish(c, [op |-> "create_workflow", workflow_str_id |-> w], r)
           ELSE /\ workflows' = Append(workflows, w)
                /\ Finish(c, [op |-> "create_workflow", workflow_str_id |-> w],
                          [internal_db_id |-> Len(workflows) + 1, workflow_str_id |-> w])
        /\ UNCHANGED <<steps, dependencies, hashOrder>>

\* POST /workflows/{w}/steps
create_step(c, w, s) ==
    LET r == create_step_check(w, s)
        request == [op |-> "create_step", workflow_str_id |-> w, step_str_id |-> s]
    IN  /\ IF IsHTTPException(r)
           THEN /\ steps' = steps
                /\ Finish(c, request, r)
           ELSE /\ Rows(steps) < MaxSteps
                /\ steps' = InsertStep(steps, r.id, s)
                /\ Finish(c, request,
                          [internal_db_id |-> Rows(steps) + 1, step_str_id |-> s])
        /\ UNCHANGED <<workflows, dependencies, hashOrder>>

\* POST /workflows/{w}/dependencies
create_dependency(c, w, s, p) ==
    LET r == create_dependency_check(w, s, p)
        request == [op |-> "create_dependency", workflow_str_id |-> w,
                    step_str_id |-> s, prerequisite_step_str_id |-> p]
    IN  /\ IF IsHTTPException(r)
           THEN /\ dependencies' = dependencies
                /\ Finish(c, request, r)
           ELSE /\ Rows(dependencies) < MaxDeps
                /\ dependencies' = InsertDependency(dependencies, r.id, s, p)
                /\ Finish(c, request, [status |-> "dependency_added"])
        /\ UNCHANGED <<workflows, steps, hashOrder>>

\* GET /workflows/{w}/details
get_workflow_details(c, w) ==
    LET workflow == check_workflow_exists(w)
        request == [op |-> "get_workflow_details", workflow_str_id |-> w]
    IN  /\ Finish(c, request,
                  IF IsHTTPException(workflow) THEN workflow
                  ELSE workflow_details(workflow.id))
        /\ UNCHANGED <<workflows, steps, dependencies, hashOrder>>

\* variant: a workflow that does not exist has the empty order
get_execution_order_empty(c, w) ==
    LET workflow == check_workflow_exists(w)
        request == [op |-> "get_execution_order", workflow_str_id |-> w]
    IN  /\ Finish(c, request,
                  IF IsHTTPException(workflow) THEN [order |-> <<>>]
                  ELSE execution_order(workflow.id, hashOrder))
        /\ UNCHANGED <<workflows, steps, dependencies, hashOrder>>

\* GET /workflows/{w}/execution-order
get_execution_order(c, w) ==
    LET workflow == check_workflow_exists(w)
        request == [op |-> "get_execution_order", workflow_str_id |-> w]
    IN  /\ Finish(c, request,
                  IF IsHTTPException(workflow) THEN workflow
                  ELSE execution_order(workflow.id, hashOrder))
        /\ UNCHANGED <<workflows, steps, dependencies, hashOrder>>

\* the server process is started again on the same database file
\* (sqlite:///./workflow_api.db): create_all keeps the tables that exist, and
\* the new interpreter hashes strings with a new seed
Restart ==
    /\ \A c \in Procs : pc[c] \in {"idle", "done"}
    /\ hashOrder' \in HashOrders \ {hashOrder}
    /\ UNCHANGED <<workflows, steps, dependencies, pc, req, loc, ret, resp>>

\* ---------------------------------------------------------- specification
Init ==
    /\ workflows = <<>>
    /\ steps = [wid \in 1..Cardinality(WorkflowIds) |-> <<>>]
    /\ dependencies = [wid \in 1..Cardinality(WorkflowIds) |-> <<>>]
    /\ hashOrder \in HashOrders
    /\ pc = [c \in Procs |-> "idle"]
    /\ req = [c \in Procs |-> NoRequest]
    /\ loc = [c \in Procs |-> NoLocals]
    /\ ret = [c \in Procs |-> Nothing]
    /\ resp = [c \in Procs |-> [status |-> 0, body |-> Nothing]]

\* the client of the sequential histories
Client == 1

\* one workflow with up to three steps: one request after the other, each
\* handler run to its end
OneWorkflow == {"w1"}

Next ==
    \/ \E w \in OneWorkflow : create_workflow(Client, w)
    \/ \E w \in OneWorkflow, s \in StepIds : create_step(Client, w, s)
    \/ \E w \in OneWorkflow, s \in StepIds, p \in StepIds : create_dependency(Client, w, s, p)
    \/ \E w \in OneWorkflow : get_workflow_details(Client, w)
    \/ \E w \in OneWorkflow : get_execution_order(Client, w)
    \/ Restart

Spec == Init /\ [][Next]_vars

\* two workflows that use the same two step identifiers
TwoSteps == {"A", "B"}

NextShared ==
    \/ \E w \in WorkflowIds : create_workflow(Client, w)
    \/ \E w \in WorkflowIds, s \in TwoSteps : create_step(Client, w, s)
    \/ \E w \in WorkflowIds, s \in TwoSteps, p \in TwoSteps : create_dependency(Client, w, s, p)
    \/ \E w \in WorkflowIds : get_workflow_details(Client, w)
    \/ \E w \in WorkflowIds : get_execution_order(Client, w)
    \/ Restart

SpecShared == Init /\ [][NextShared]_vars

\* -------------------------------------------------- overlapping requests
\* FastAPI runs the handlers (plain def) on a thread pool, each request with
\* a session of its own (get_db).  Nothing in a handler opens a transaction
\* around its statements or takes a lock: every SELECT reads the rows
\* committed so far, and db.add + db.commit inserts one row.  A handler is
\* therefore one step per statement, and the steps of two requests
\* interleave.

\* the handler of client c goes on at position l with the locals v
Continue(c, request, l, v) ==
    /\ req' = [req EXCEPT ![c] = request]
    /\ pc' = [pc EXCEPT ![c] = l]
    /\ loc' = [loc EXCEPT ![c] = v]
    /\ UNCHANGED <<ret, resp>>

Ready(c) == pc[c] \in {"idle", "done"}

\* create_workflow, line 143-145: the SELECT and the 400
cw_query(c, w) ==
    LET request == [op |-> "create_workflow", workflow_str_id |-> w]
        r == create_workflow_check(w)
    IN  /\ Ready(c)
        /\ IF IsHTTPException(r)
           THEN Finish(c, request, r)
           ELSE Continue(c, request, "cw_insert", NoLocals)
        /\ UNCHANGED <<workflows, steps, dependencies, hashOrder>>

\* create_workflow, line 147-152: the INSERT; workflow_str_id is declared
\* unique=True, so a second row with the same value is refused by the
\* database and db.commit() raises IntegrityError, which nothing catches
cw_insert(c) ==
    /\ pc[c] = "cw_insert"
    /\ IF QueryWorkflow(req[c].workflow_str_id) # 0
       THEN /\ Finish(c, req[c], [unhandled |-> "IntegrityError"])
            /\ UNCHANGED workflows
       ELSE /\ workflows' = Append(workflows, req[c].workflow_str_id)
            /\ Finish(c, req[c], [internal_db_id |-> Len(workflows) + 1,
                                  workflow_str_id |-> req[c].workflow_str_id])
    /\ UNCHANGED <<steps, dependencies, hashOrder>>

\* create_step, line 157: check_workflow_exists
cs_workflow(c, w, s) ==
    LET request == [op |-> "create_step", workflow_str_id |-> w, step_str_id |-> s]
        workflow == check_workflow_exists(w)
    IN  /\ Ready(c)
        /\ IF IsHTTPException(workflow)
           THEN Finish(c, request, workflow)
           ELSE Continue(c, request, "cs_query", [workflow |-> workflow.id])
        /\ UNCHANGED <<workflows, steps, dependencies, hashOrder>>

\* create_step, line 160-166: the SELECT and the 400
cs_query(c) ==
    /\ pc[c] = "cs_query"
    /\ IF QueryStep(loc[c].workflow, req[c].step_str_id)
       THEN Finish(c, req[c], StepAlreadyExists(req[c].step_str_id))
       ELSE Continue(c, req[c], "cs_insert", loc[c])
    /\ UNCHANGED <<workflows, steps, dependencies, hashOrder>>

\* create_step, line 168-178: the INSERT; the unique constraint on
\* (workflow_id, step_str_id) is commented out, the row is always accepted
cs_insert(c) ==
    /\ pc[c] = "cs_insert"
    /\ Rows(steps) < MaxSteps
    /\ steps' = InsertStep(steps, loc[c].workflow, req[c].step_str_id)
    /\ Finish(c, req[c], [internal_db_id |-> Rows(steps) + 1,
                          step_str_id |-> req[c].step_str_id])
    /\ UNCHANGED <<workflows, dependencies, hashOrder>>

\* create_dependency, line 183-186: check_workflow_exists, then
\* validate_no_self_dependency on the request alone
cd_workflow(c, w, s, p) ==
    LET request == [op |-> "create_dependency", workflow_str_id |-> w,
                    step_str_id |-> s, prerequisite_step_str_id |-> p]
        workflow == check_workflow_exists(w)
    IN  /\ Ready(c)
        /\ IF IsHTTPException(workflow)
           THEN Finish(c, request, workflow)
           ELSE IF IsHTTPException(validate_no_self_dependency(s, p))
           THEN Finish(c, request, validate_no_self_dependency(s, p))
           ELSE Continue(c, request, "cd_step", [workflow |-> workflow.id])
        /\ UNCHANGED <<workflows, steps, dependencies, hashOrder>>

\* create_dependency, line 189: check_step_exists of the dependent
cd_step(c) ==
    LET r == check_step_exists(loc[c].workflow, req[c].step_str_id)
    IN  /\ pc[c] = "cd_step"
        /\ IF IsHTTPException(r)
           THEN Finish(c, req[c], r)
           ELSE Continue(c, req[c], "cd_prerequisite", loc[c])
        /\ UNCHANGED <<workflows, steps, dependencies, hashOrder>>

\* create_dependency, line 190: check_step_exists of the prerequisite
cd_prerequisite(c) ==
    LET r == check_step_exists(loc[c].workflow, req[c].prerequisite_step_str_id)
    IN  /\ pc[c] = "cd_prerequisite"
        /\ IF IsHTTPException(r)
           THEN Finish(c, req[c], r)
           ELSE Continue(c, req[c], "cd_query", loc[c])
        /\ UNCHANGED <<workflows, steps, dependencies, hashOrder>>

\* create_dependency, line 193-200: the SELECT and the 400
cd_query(c) ==
    /\ pc[c] = "cd_query"
    /\ IF QueryDependency(loc[c].workflow, req[c].step_str_id,
                          req[c].prerequisite_step_str_id)
       THEN Finish(c, req[c], DependencyAlreadyExists)
       ELSE Continue(c, req[c], "cd_insert", loc[c])
    /\ UNCHANGED <<workflows, steps, dependencies, hashOrder>>

\* create_dependency, line 203-212: the INSERT; DependencyDB declares no
\* unique constraint, the row is always accepted
cd_insert(c) ==
    /\ pc[c] = "cd_insert"
    /\ Rows(dependencies) < MaxDeps
    /\ dependencies' = InsertDependency(dependencies, loc[c].workflow,
                            req[c].step_str_id, req[c].prerequisite_step_str_id)
    /\ Finish(c, req[c], [status |-> "dependency_added"])
    /\ UNCHANGED <<workflows, steps, hashOrder>>

\* two clients whose requests overlap, on one workflow and two steps
InitOverlap == Init /\ hashOrder = StepOrder

NextOverlap ==
    \E c \in Procs :
        \/ \E w \in OneWorkflow : cw_query(c, w)
        \/ cw_insert(c)
        \/ \E w \in OneWorkflow, s \in TwoSteps : cs_workflow(c, w, s)
        \/ cs_query(c)
        \/ cs_insert(c)
        \/ \E w \in OneWorkflow, s \in TwoSteps, p \in TwoSteps : cd_workflow(c, w, s, p)
        \/ cd_step(c)
        \/ cd_prerequisite(c)
        \/ cd_query(c)
        \/ cd_insert(c)

SpecOverlap == InitOverlap /\ [][NextOverlap]_vars

\* ---- get_execution_order, one step of the sort at a time ----

\* get_execution_order, line 250-275: the queries, the graph, and the start
\* of topological_generations:
\*   indegree_map = {v: d for v, d in G.in_degree() if d > 0}
\*   zero_indegree = [v for v, d in G.in_degree() if d == 0]
eo_graph(c, w) ==
    LET request == [op |-> "get_execution_order", workflow_str_id |-> w]
        workflow == check_workflow_exists(w)
        G == build_graph(workflow.id, hashOrder)
        positive == {v \in Range(G.nodes) : in_degree(G, v) > 0}
        IsZero(v) == in_degree(G, v) = 0
    IN  /\ Ready(c)
        /\ IF IsHTTPException(workflow)
           THEN Finish(c, request, workflow)
           ELSE Continue(c, request, "eo_loop",
                    [workflow |-> workflow.id,
                     G |-> G,
                     indegree_map |-> [v \in positive |-> in_degree(G, v)],
                     zero_indegree |-> SelectSeq(G.nodes, IsZero),
                     this_generation |-> <<>>,
                     todo |-> <<>>,
                     out |-> <<>>])
        /\ UNCHANGED <<workflows, steps, dependencies, hashOrder>>

\* while zero_indegree: this_generation = zero_indegree; zero_indegree = []
eo_generation(c) ==
    /\ pc[c] = "eo_loop"
    /\ loc[c].zero_indegree # <<>>
    /\ Continue(c, req[c], "eo_visit",
                [loc[c] EXCEPT !.this_generation = loc[c].zero_indegree,
                               !.todo = loc[c].zero_indegree,
                               !.zero_indegree = <<>>])
    /\ UNCHANGED <<workflows, steps, dependencies, hashOrder>>

\* for node in this_generation: for child in G.neighbors(node): ...
eo_node(c) ==
    /\ pc[c] = "eo_visit"
    /\ loc[c].todo # <<>>
    /\ LET r == visit_children(neighbors(loc[c].G, Head(loc[c].todo)),
                               loc[c].indegree_map, loc[c].zero_indegree)
       IN  Continue(c, req[c], "eo_visit",
                    [loc[c] EXCEPT !.indegree_map = r.indegree_map,
                                   !.zero_indegree = r.zero_indegree,
                                   !.todo = Tail(loc[c].todo)])
    /\ UNCHANGED <<workflows, steps, dependencies, hashOrder>>

\* yield this_generation; topological_sort yields its nodes one by one and
\* list() collects them
eo_yield(c) ==
    /\ pc[c] = "eo_visit"
    /\ loc[c].todo = <<>>
    /\ Continue(c, req[c], "eo_loop",
                [loc[c] EXCEPT !.out = loc[c].out \o loc[c].this_generation])
    /\ UNCHANGED <<workflows, steps, dependencies, hashOrder>>

\* the loop is left: if indegree_map: raise NetworkXUnfeasible, which line
\* 277-279 turns into the cycle answer; otherwise line 276 returns the order
eo_return(c) ==
    /\ pc[c] = "eo_loop"
    /\ loc[c].zero_indegree = <<>>
    /\ Finish(c, req[c],
              IF DOMAIN loc[c].indegree_map # {}
              THEN [error |-> "cycle_detected"]
              ELSE [order |-> loc[c].out])
    /\ UNCHANGED <<workflows, steps, dependencies, hashOrder>>

\* sequences without repetition of at most n elements of S
RowsWithoutRepetition(S, n) ==
    {q \in UNION {[1..k -> S] : k \in 0..n} :
        \A i, j \in DOMAIN q : q[i] = q[j] => i = j}

\* the tables after any sequence of successful requests on one workflow:
\* its steps in the order of their creation, and dependency rows between
\* them, no step on itself and no pair twice
InitResolver ==
    /\ workflows = <<"w1">>
    /\ \E ss \in RowsWithoutRepetition(StepIds, MaxSteps) :
          /\ steps = [wid \in 1..Cardinality(WorkflowIds) |->
                         IF wid = 1 THEN ss ELSE <<>>]
          /\ \E ds \in RowsWithoutRepetition(
                        {d \in [step_str_id : Range(ss),
                                prerequisite_step_str_id : Range(ss)] :
                            d.step_str_id # d.prerequisite_step_str_id},
                        MaxDeps) :
                dependencies = [wid \in 1..Cardinality(WorkflowIds) |->
                                   IF wid = 1 THEN ds ELSE <<>>]
    /\ hashOrder \in HashOrders
    /\ pc = [c \in Procs |-> "idle"]
    /\ req = [c \in Procs |-> NoRequest]
    /\ loc = [c \in Procs |-> NoLocals]
    /\ ret = [c \in Procs |-> Nothing]
    /\ resp = [c \in Procs |-> [status |-> 0, body |-> Nothing]]

NextResolver ==
    \/ \E w \in WorkflowIds : eo_graph(Client, w)
    \/ eo_generation(Client)
    \/ eo_node(Client)
    \/ eo_yield(Client)
    \/ eo_return(Client)

\* the steps of a sort that has started
ResolverStep(c) == eo_generation(c) \/ eo_node(c) \/ eo_yield(c) \/ eo_return(c)

\* a request may or may not come, but the handler of a request that has
\* come runs on a worker thread that nothing holds back
SpecResolver ==
    InitResolver /\ [][NextResolver]_vars /\ WF_vars(ResolverStep(Client))

\* ============================================================ properties
\* client c holds the outcome of a request of kind op
Done(c, op) == pc[c] = "done" /\ req[c].op = op

\* the workflow row the last request of client c names (0: no such row)
WorkflowOf(c) == QueryWorkflow(req[c].workflow_str_id)

CycleDetected == [error |-> "cycle_detected"]

NotFound(r) == IsHTTPException(r) /\ r.status_code = 404

InvalidArgument == HTTPException(400, "Self-dependency not allowed")

\* s is an ordering of exactly the steps of wid that puts every prerequisite
\* before its dependent
ValidOrder(s, wid) ==
    /\ IsPermutationOf(s, StepIdsOf(wid))
    /\ \A d \in Range(dependencies[wid]) :
          Pos(s, d.prerequisite_step_str_id) < Pos(s, d.step_str_id)

\* C1: on a workflow whose stored dependencies form a DAG, GetExecutionOrder
\* answers with an order that lists every step of the workflow exactly once
\* and nothing else, every prerequisite before its dependent.
C1_OrderOfDag ==
    \A c \in Procs :
        (Done(c, "get_execution_order") /\ WorkflowOf(c) # 0 /\ ~HasCycle(WorkflowOf(c)))
        => /\ resp[c].status = 200
           /\ DOMAIN resp[c].body = {"order"}
           /\ ValidOrder(resp[c].body.order, WorkflowOf(c))

\* a chain over three steps has been ordered
C1_Witness ==
    /\ Done(Client, "get_execution_order")
    /\ WorkflowOf(Client) # 0
    /\ Len(steps[WorkflowOf(Client)]) = 3
    /\ Len(dependencies[WorkflowOf(Client)]) >= 2
    /\ ~HasCycle(WorkflowOf(Client))
    /\ resp[Client].status = 200

\* C2: on an existing workflow the handler returns the cycle indication
\* exactly when the stored dependencies contain a directed cycle, and with a
\* cycle no order, not even of the steps outside the cycle, is returned.
C2_CycleIffCyclic ==
    \A c \in Procs :
        (Done(c, "get_execution_order") /\ WorkflowOf(c) # 0)
        => /\ (ret[c] = CycleDetected) <=> HasCycle(WorkflowOf(c))
           /\ HasCycle(WorkflowOf(c))
                => ("order" \notin DOMAIN ret[c] /\ "order" \notin DOMAIN resp[c].body)

\* a cycle that leaves one step free has been reported
C2_Witness ==
    /\ Done(Client, "get_execution_order")
    /\ WorkflowOf(Client) # 0
    /\ HasCycle(WorkflowOf(Client))
    /\ \E s \in StepIdsOf(WorkflowOf(Client)) :
          \A e \in Edges(WorkflowOf(Client)) : e[1] # s /\ e[2] # s
    /\ ret[Client] = CycleDetected

\* Kahn's algorithm with the lexicographic tie-break: of the steps of N whose
\* prerequisites are all emitted, the smallest identifier goes next
RECURSIVE LexKahn(_, _, _)
LexKahn(N, E, out) ==
    LET ready == {n \in N : \A e \in E : e[2] = n => e[1] \notin N}
    IN  IF ready = {} THEN out
        ELSE LET n == CHOOSE x \in ready :
                        \A y \in ready : Pos(StepOrder, x) <= Pos(StepOrder, y)
             IN  LexKahn(N \ {n}, E, Append(out, n))

\* C3: the order returned is the one Kahn's algorithm gives when the
\* smallest ready identifier is always emitted next; without dependencies it
\* is the step ids sorted ascending.
C3_LexicographicTieBreak ==
    \A c \in Procs :
        (Done(c, "get_execution_order") /\ WorkflowOf(c) # 0 /\ "order" \in DOMAIN ret[c])
        => ret[c].order = LexKahn(StepIdsOf(WorkflowOf(c)), Edges(WorkflowOf(c)), <<>>)

\* C4: GetExecutionOrder asked again for the same workflow, nothing stored
\* in between, returns what it returned before.
C4_SameOutputTwice ==
    [][\A c \in Procs :
         (Done(c, "get_execution_order") /\ req'[c] = req[c] /\ db' = db)
         => ret'[c] = ret[c]]_vars

\* C5: with a cycle in the stored dependencies the client receives a
\* successful response that carries the cycle indication, never an error.
C5_CycleIsSuccessfulResponse ==
    \A c \in Procs :
        (Done(c, "get_execution_order") /\ WorkflowOf(c) # 0 /\ HasCycle(WorkflowOf(c)))
        => /\ resp[c].status = 200
           /\ resp[c].body = CycleDetected

\* no stored dependency has its dependent as its own prerequisite
NoSelfDependency ==
    \A wid \in DOMAIN dependencies : \A d \in Range(dependencies[wid]) :
        d.step_str_id # d.prerequisite_step_str_id

\* C6 as stated: AddDependency with identical ids always fails with
\* InvalidArgument.
C6_SelfDependencyAlwaysInvalid ==
    \A c \in Procs :
        (Done(c, "create_dependency") /\ req[c].step_str_id = req[c].prerequisite_step_str_id)
        => ret[c] = InvalidArgument

\* C6 amended: AddDependency with identical ids on an existing workflow fails
\* with InvalidArgument whether or not the step exists, on a missing workflow
\* with NotFound, and no stored dependency ever has identical ids.
C6_SelfDependencyRejected ==
    /\ NoSelfDependency
    /\ \A c \in Procs :
        (Done(c, "create_dependency") /\ req[c].step_str_id = req[c].prerequisite_step_str_id)
        => /\ WorkflowOf(c) # 0 => (ret[c] = InvalidArgument /\ resp[c].status = 400)
           /\ WorkflowOf(c) = 0 => (NotFound(ret[c]) /\ resp[c].status = 404)

\* a self-dependency on a step that was never added has been refused
C6_Witness ==
    /\ Done(Client, "create_dependency")
    /\ req[Client].step_str_id = req[Client].prerequisite_step_str_id
    /\ WorkflowOf(Client) # 0
    /\ req[Client].step_str_id \notin StepIdsOf(WorkflowOf(Client))
    /\ StepIdsOf(WorkflowOf(Client)) # {}
    /\ ret[Client] = InvalidArgument

\* no two dependency rows of one workflow hold the same pair
NoDuplicateDependency ==
    \A wid \in DOMAIN dependencies :
        \A i, j \in DOMAIN dependencies[wid] :
            dependencies[wid][i] = dependencies[wid][j] => i = j

\* the step is a request of kind op by client c, handled from its first
\* statement to its last
Handles(c, op) ==
    /\ hashOrder' = hashOrder
    /\ Ready(c)
    /\ pc'[c] = "done"
    /\ req'[c].op = op

\* C7: in a sequential history, AddDependency of a pair already stored in
\* that workflow fails with AlreadyExists and stores nothing, and no two
\* stored dependencies of a workflow share their pair.
C7_DuplicateRejected ==
    [][/\ NoDuplicateDependency'
       /\ \A c \in Procs :
            (/\ Handles(c, "create_dependency")
             /\ QueryWorkflow(req'[c].workflow_str_id) # 0
             /\ QueryDependency(QueryWorkflow(req'[c].workflow_str_id),
                                req'[c].step_str_id, req'[c].prerequisite_step_str_id))
            => /\ ret'[c] = DependencyAlreadyExists
               /\ ret'[c] # InvalidArgument
               /\ ~NotFound(ret'[c])
               /\ resp'[c].status = 400
               /\ dependencies' = dependencies]_vars

\* a pair stored in one workflow has been refused there while the other
\* workflow exists
C7_Witness ==
    /\ Done(Client, "create_dependency")
    /\ ret[Client] = DependencyAlreadyExists
    /\ Len(workflows) = 2

\* C8: an edge between two distinct existing steps of an existing workflow
\* that is not stored yet is admitted and stored whether or not it closes a
\* cycle, and GetExecutionOrder on a workflow with a stored cycle returns the
\* cycle indication.
C8_CycleAdmittedThenReported ==
    [][\A c \in Procs :
        /\ (/\ Handles(c, "create_dependency")
            /\ QueryWorkflow(req'[c].workflow_str_id) # 0
            /\ req'[c].step_str_id # req'[c].prerequisite_step_str_id
            /\ QueryStep(QueryWorkflow(req'[c].workflow_str_id), req'[c].step_str_id)
            /\ QueryStep(QueryWorkflow(req'[c].workflow_str_id), req'[c].prerequisite_step_str_id)
            /\ ~QueryDependency(QueryWorkflow(req'[c].workflow_str_id),
                                req'[c].step_str_id, req'[c].prerequisite_step_str_id))
           => /\ resp'[c].status = 200
              /\ dependencies' = InsertDependency(dependencies,
                                     QueryWorkflow(req'[c].workflow_str_id),
                                     req'[c].step_str_id, req'[c].prerequisite_step_str_id)
        /\ (/\ Handles(c, "get_execution_order")
            /\ QueryWorkflow(req'[c].workflow_str_id) # 0
            /\ HasCycle(QueryWorkflow(req'[c].workflow_str_id)))
           => ret'[c] = CycleDetected]_vars

\* the dependency just admitted closed the first cycle of its workflow
C8_Witness ==
    /\ Done(Client, "create_dependency")
    /\ resp[Client].status = 200
    /\ HasCycle(WorkflowOf(Client))
    /\ ~Cyclic(Edges(WorkflowOf(Client))
               \ {<<req[Client].prerequisite_step_str_id, req[Client].step_str_id>>})

\* C9: both ends of every stored dependency are steps of the dependency's
\* workflow, and the graph built for a workflow has exactly the workflow's
\* step ids as nodes: adding the edges adds no node.
C9_EndpointsAreSteps ==
    /\ \A wid \in DOMAIN dependencies :
          /\ dependencies[wid] # <<>> => wid <= Len(workflows)
          /\ \A d \in Range(dependencies[wid]) :
                /\ d.step_str_id \in StepIdsOf(wid)
                /\ d.prerequisite_step_str_id \in StepIdsOf(wid)
    /\ \A wid \in 1..Len(workflows) : \A h \in HashOrders :
          /\ Range(build_graph(wid, h).nodes) = StepIdsOf(wid)
          /\ build_graph(wid, h).nodes = SetIteration(StepIdsOf(wid), h)

\* a dependency has been admitted between two steps of which the other
\* workflow has only one
C9_Witness ==
    /\ Done(Client, "create_dependency")
    /\ resp[Client].status = 200
    /\ \E wid \in 1..Len(workflows) :
          /\ wid # WorkflowOf(Client)
          /\ StepIdsOf(wid) # {}
          /\ req[Client].step_str_id \notin StepIdsOf(wid)

\* C10: of two overlapping AddDependency requests for the same workflow and
\* the same pair at most one succeeds, and at most one dependency with that
\* pair is stored.
C10_AtMostOneStored ==
    /\ NoDuplicateDependency
    /\ \A c, e \in Procs :
          (/\ c # e
           /\ Done(c, "create_dependency")
           /\ Done(e, "create_dependency")
           /\ req[c] = req[e]
           /\ resp[c].status = 200
           /\ resp[e].status = 200)
          => FALSE

\* no two step rows of one workflow hold the same step_str_id
NoDuplicateStep ==
    \A wid \in DOMAIN steps :
        \A i, j \in DOMAIN steps[wid] : steps[wid][i] = steps[wid][j] => i = j

\* C11: of two overlapping AddStep requests for the same workflow and the
\* same step id at most one succeeds, and at most one step with that id is
\* stored in the workflow.
C11_AtMostOneStep ==
    /\ NoDuplicateStep
    /\ \A c, e \in Procs :
          (/\ c # e
           /\ Done(c, "create_step")
           /\ Done(e, "create_step")
           /\ req[c] = req[e])
          => ~(resp[c].status = 200 /\ resp[e].status = 200)

\* no two workflow rows hold the same workflow_str_id
NoDuplicateWorkflow ==
    \A i, j \in DOMAIN workflows : workflows[i] = workflows[j] => i = j

\* C12: however CreateWorkflow requests with the same id interleave, one
\* workflow with that id is stored at most, and a request that finds the id
\* taken fails with AlreadyExists.
C12_OneWorkflowPerId ==
    /\ NoDuplicateWorkflow
    /\ \A c \in Procs :
          (Done(c, "create_workflow") /\ resp[c].status # 200)
          => (ret[c] = WorkflowAlreadyExists /\ resp[c].status = 400)

\* C13: AddStep fails with NotFound exactly when the workflow does not
\* exist; on an existing workflow it fails with AlreadyExists exactly when
\* the workflow has a step with that id, whatever other workflows hold; in
\* every other case it succeeds and stores the step in that workflow.
C13_AddStepOutcome ==
    [][\A c \in Procs :
         Handles(c, "create_step")
         => LET wid == QueryWorkflow(req'[c].workflow_str_id)
                s == req'[c].step_str_id
            IN  /\ NotFound(ret'[c]) <=> wid = 0
                /\ wid = 0 => ret'[c] = WorkflowNotFound(req'[c].workflow_str_id)
                /\ wid # 0 => /\ (ret'[c] = StepAlreadyExists(s)) <=> QueryStep(wid, s)
                              /\ QueryStep(wid, s) => resp'[c].status = 400
                              /\ ~QueryStep(wid, s) =>
                                    /\ resp'[c].status = 200
                                    /\ resp'[c].body.step_str_id = s
                                    /\ steps' = InsertStep(steps, wid, s)]_vars

\* a step has been added to a workflow while the other workflow already
\* had a step with the same id
C13_Witness ==
    /\ Done(Client, "create_step")
    /\ resp[Client].status = 200
    /\ \E wid \in 1..Len(workflows) :
          /\ wid # WorkflowOf(Client)
          /\ QueryStep(wid, req[Client].step_str_id)

\* the outcome the precedence of the checks gives AddDependency(w, s, p)
ExpectedDependencyOutcome(w, s, p) ==
    LET wid == QueryWorkflow(w)
    IN  IF wid = 0 THEN WorkflowNotFound(w)
        ELSE IF s = p THEN InvalidArgument
        ELSE IF ~QueryStep(wid, s) THEN StepNotFound(s)
        ELSE IF ~QueryStep(wid, p) THEN StepNotFound(p)
        ELSE IF QueryDependency(wid, s, p) THEN DependencyAlreadyExists
        ELSE [status |-> "dependency_added"]

\* C14: AddDependency reports the first failing check in the order missing
\* workflow, identical ids, missing dependent, missing prerequisite, stored
\* pair, and succeeds exactly when none of them fails.
C14_CheckPrecedence ==
    [][\A c \in Procs :
         Handles(c, "create_dependency")
         => /\ ret'[c] = ExpectedDependencyOutcome(req'[c].workflow_str_id,
                             req'[c].step_str_id, req'[c].prerequisite_step_str_id)
            /\ resp'[c].status = 200 <=> ~IsHTTPException(ret'[c])]_vars

\* a request whose dependent and prerequisite are both missing has been
\* answered with the dependent's NotFound
C14_Witness ==
    /\ Done(Client, "create_dependency")
    /\ WorkflowOf(Client) # 0
    /\ req[Client].step_str_id # req[Client].prerequisite_step_str_id
    /\ ~QueryStep(WorkflowOf(Client), req[Client].step_str_id)
    /\ ~QueryStep(WorkflowOf(Client), req[Client].prerequisite_step_str_id)
    /\ ret[Client] = StepNotFound(req[Client].step_str_id)

\* C15: a CreateWorkflow, AddStep or AddDependency that fails leaves the
\* three tables as they were; one that succeeds adds one row to the table of
\* its kind and leaves the other two as they were.
C15_FrameOfMutations ==
    [][\A c \in Procs :
         /\ Handles(c, "create_workflow")
            => IF resp'[c].status = 200
               THEN /\ workflows' = Append(workflows, req'[c].workflow_str_id)
                    /\ steps' = steps /\ dependencies' = dependencies
               ELSE db' = db
         /\ Handles(c, "create_step")
            => IF resp'[c].status = 200
               THEN /\ Rows(steps') = Rows(steps) + 1
                    /\ \E wid \in DOMAIN steps :
                          steps' = [steps EXCEPT ![wid] = Append(@, req'[c].step_str_id)]
                    /\ workflows' = workflows /\ dependencies' = dependencies
               ELSE db' = db
         /\ Handles(c, "create_dependency")
            => IF resp'[c].status = 200
               THEN /\ Rows(dependencies') = Rows(dependencies) + 1
                    /\ \E wid \in DOMAIN dependencies :
                          dependencies' = [dependencies EXCEPT ![wid] = Append(@,
                              [step_str_id |-> req'[c].step_str_id,
                               prerequisite_step_str_id |-> req'[c].prerequisite_step_str_id])]
                    /\ workflows' = workflows /\ steps' = steps
               ELSE db' = db]_vars

\* a request has failed on tables that hold steps and dependencies
C15_Witness ==
    /\ \E op \in {"create_workflow", "create_step", "create_dependency"} : Done(Client, op)
    /\ resp[Client].status \in {400, 404}
    /\ Rows(steps) > 1
    /\ Rows(dependencies) > 0

\* C16: GetExecutionOrder and GetWorkflowDetails leave the three tables as
\* they were whatever they answer, and on a workflow that does not exist
\* they answer NotFound, GetExecutionOrder with no order at all.
C16_ReadsChangeNothing ==
    [][\A c \in Procs :
         (Handles(c, "get_execution_order") \/ Handles(c, "get_workflow_details"))
         => /\ db' = db
            /\ QueryWorkflow(req'[c].workflow_str_id) = 0
               => /\ ret'[c] = WorkflowNotFound(req'[c].workflow_str_id)
                  /\ resp'[c].status = 404
                  /\ "order" \notin DOMAIN resp'[c].body]_vars

\* the order of a workflow that does not exist has been asked for while the
\* other workflow has steps
C16_Witness ==
    /\ Done(Client, "get_execution_order")
    /\ WorkflowOf(Client) = 0
    /\ resp[Client].status = 404
    /\ Rows(steps) > 0

\* C18: GetWorkflowDetails on an existing workflow lists every step of the
\* workflow, each with exactly the prerequisites of the dependency rows of
\* that workflow whose dependent it is, and none of another workflow.
C18_DetailsOfOwnWorkflow ==
    \A c \in Procs :
        (Done(c, "get_workflow_details") /\ WorkflowOf(c) # 0)
        => LET wid == WorkflowOf(c)
               listed == resp[c].body.steps
           IN  /\ resp[c].status = 200
               /\ Len(listed) = Len(steps[wid])
               /\ {listed[i].step_str_id : i \in DOMAIN listed} = StepIdsOf(wid)
               /\ \A i \in DOMAIN listed :
                     /\ Range(listed[i].prerequisites) =
                           {d.prerequisite_step_str_id :
                              d \in {e \in Range(dependencies[wid]) :
                                       e.step_str_id = listed[i].step_str_id}}
                     /\ Len(listed[i].prerequisites) =
                           Cardinality(Range(listed[i].prerequisites))

\* the details of a workflow have been given while the other workflow holds
\* a dependency of a step id that this workflow has too
C18_Witness ==
    /\ Done(Client, "get_workflow_details")
    /\ WorkflowOf(Client) # 0
    /\ \E wid \in 1..Len(workflows) :
          /\ wid # WorkflowOf(Client)
          /\ \E d \in Range(dependencies[wid]) :
                /\ QueryStep(WorkflowOf(Client), d.step_str_id)
                /\ ~QueryDependency(WorkflowOf(Client), d.step_str_id,
                                     d.prerequisite_step_str_id)

\* the order get_execution_order computes from the step rows ss and the
\* dependency rows ds of one workflow
OrderFrom(ss, ds, h) ==
    LET r == topological_sort(
                 add_dependency_edges(
                     add_nodes_from(EmptyGraph, SetIteration(Range(ss), h)), ds))
    IN  IF r.unfeasible THEN CycleDetected ELSE [order |-> r.order]

\* the details get_workflow_details computes from the rows of one workflow
DetailsFrom(w, ss, ds) ==
    LET Prerequisites(s) ==
            LET Test(d) == d.step_str_id = s
                own == SelectSeq(ds, Test)
            IN  [i \in DOMAIN own |-> own[i].prerequisite_step_str_id]
    IN  [workflow_str_id |-> w,
         steps |-> [i \in DOMAIN ss |->
                      [step_str_id |-> ss[i],
                       prerequisites |-> Prerequisites(ss[i])]]]

\* the two results of a workflow are computed from its own rows alone
ResultsFromOwnRows ==
    \A wid \in 1..Len(workflows) :
        /\ execution_order(wid, hashOrder) =
              OrderFrom(steps[wid], dependencies[wid], hashOrder)
        /\ workflow_details(wid) =
              DetailsFrom(workflows[wid], steps[wid], dependencies[wid])

\* C20: AddStep and AddDependency on a workflow leave the steps, the
\* dependencies, the execution order and the details of every other
\* workflow as they were, also when the workflows use the same step ids.
C20_WorkflowsIsolated ==
    /\ []ResultsFromOwnRows
    /\ [][\A c \in Procs :
            (Handles(c, "create_step") \/ Handles(c, "create_dependency"))
            => \A wid \in 1..Len(workflows) :
                  wid # QueryWorkflow(req'[c].workflow_str_id)
                  => /\ steps'[wid] = steps[wid]
                     /\ dependencies'[wid] = dependencies[wid]
                     /\ \E w \in {workflows'[wid]}, ss \in {steps'[wid]},
                           ds \in {dependencies'[wid]}, h \in {hashOrder'} :
                           /\ OrderFrom(ss, ds, h) = execution_order(wid, hashOrder)
                           /\ DetailsFrom(w, ss, ds) = workflow_details(wid)]_vars

\* a dependency has been added to a workflow while the other workflow has a
\* step with the id of the dependent
C20_Witness ==
    /\ Done(Client, "create_dependency")
    /\ resp[Client].status = 200
    /\ \E wid \in 1..Len(workflows) :
          /\ wid # WorkflowOf(Client)
          /\ req[Client].step_str_id \in StepIdsOf(wid)

\* get_execution_order has just returned the cycle indication for w
CycleReturned(w) ==
    \E c \in Procs :
        /\ Done(c, "get_execution_order")
        /\ req[c].workflow_str_id = w
        /\ ret[c] = CycleDetected

\* get_execution_order has just returned something else than the cycle
\* indication for w
OtherThanCycleReturned(w) ==
    \E c \in Procs :
        /\ Done(c, "get_execution_order")
        /\ req[c].workflow_str_id = w
        /\ ret[c] # CycleDetected

\* C19: once get_execution_order has returned the cycle indication for a
\* workflow, every later get_execution_order on that workflow returns it
\* too, whatever operations come in between.
C19_CycleIsPermanent ==
    \A w \in WorkflowIds :
        [](CycleReturned(w) => [](~OtherThanCycleReturned(w)))

\* the cycle indication has been returned for a workflow whose cycle was
\* there before its latest dependency was added
C19_Witness ==
    /\ Len(workflows) > 0
    /\ Len(dependencies[1]) > 2
    /\ CycleReturned(workflows[1])
    /\ Cyclic({<<dependencies[1][i].prerequisite_step_str_id,
                  dependencies[1][i].step_str_id>> : i \in 1..2})

\* client c is between the start and the end of the sort
InResolver(c) == pc[c] \in {"eo_loop", "eo_visit"}

\* where the step v stands in the sort of client c: 0 for Unvisited (its
\* in-degree is still positive), 1 for Ready (in-degree zero, not emitted),
\* 2 for Ordered (emitted)
Stage(c, v) ==
    IF v \in Range(loc[c].out) THEN 2
    ELSE IF v \in Range(loc[c].zero_indegree) \cup Range(loc[c].this_generation)
    THEN 1
    ELSE 0

\* the ready set of client c is empty
ReadySetEmpty(c) == pc[c] = "eo_loop" /\ loc[c].zero_indegree = <<>>

\* when the ready set is empty, the steps that never became Ready
Blocked(c) == Range(loc[c].G.nodes) \ Range(loc[c].out)

ResolverWellFormed ==
    \A c \in Procs :
        InResolver(c)
        => /\ \A i, j \in DOMAIN loc[c].out : loc[c].out[i] = loc[c].out[j] => i = j
           /\ Range(loc[c].G.nodes) = StepIdsOf(loc[c].workflow)
           /\ \A v \in Range(loc[c].G.nodes) :
                 Stage(c, v) = 0 <=> v \in DOMAIN loc[c].indegree_map
           /\ ReadySetEmpty(c)
              => \A v \in Range(loc[c].G.nodes) : Stage(c, v) \in {0, 2}

\* C17: the sort of get_execution_order ends for every workflow graph; a
\* step only moves forward through Unvisited, Ready, Ordered and is emitted
\* at most once; when the ready set is empty every step is Ordered or has
\* never become Ready (Blocked), and the answer is the cycle indication
\* exactly when some step is Blocked.
C17_ResolverTerminates ==
    /\ []ResolverWellFormed
    /\ [][\A c \in Procs :
            /\ (InResolver(c) /\ InResolver(c)')
               => \A v \in StepIds : Stage(c, v)' >= Stage(c, v)
            /\ (ReadySetEmpty(c) /\ pc'[c] = "done")
               => /\ ret'[c] = CycleDetected <=> Blocked(c) # {}
                  /\ ret'[c] = execution_order(loc[c].workflow, hashOrder)]_vars
    /\ \A c \in Procs : InResolver(c) ~> (pc[c] = "done")

\* the ready set is empty with steps emitted and steps blocked
C17_Witness ==
    /\ ReadySetEmpty(Client)
    /\ loc[Client].out # <<>>
    /\ Blocked(Client) # {}

====
